---- MODULE Spec2Model ----
(***************************************************************************)
(* Model of metaswitch/common/alarms_parser.py: the alarm definition       *)
(* validator (Alarm, AlarmLevel), the loader (parse_alarms_file) and the   *)
(* two renderers (render_alarm, alarms_to_csv).                            *)
(*                                                                         *)
(* Strings the code inspects character by character (names, causes,        *)
(* severities, OIDs, rendered lines) are sequences of one-character        *)
(* strings.  Free-text fields (details, description, cause, effect,        *)
(* action and the extended_* overrides), of which the code only takes      *)
(* len() and which it otherwise copies, are run-length strings             *)
(* [ch |-> c, n |-> k], standing for the character c repeated k times.     *)
(* JSON objects are records; a key the document omits is a field the       *)
(* record does not have.                                                   *)
(***************************************************************************)
EXTENDS Integers, Sequences, FiniteSets, TLC

VARIABLES
    \* AlarmLevel.__init__ on its own (SpecLevel)
    parent_alarm,   \* the Alarm under construction handed to AlarmLevel
    level,          \* the level record handed to AlarmLevel
    level_obj,      \* outcome of AlarmLevel(parent_alarm, level)
    values,         \* the row alarms_to_csv writes for level_obj
    \* Alarm.__init__ and render_alarm on their own (SpecAlarm)
    alarm,          \* the alarm record handed to Alarm
    alarm_obj,      \* outcome of Alarm(alarm)
    rendered,       \* render_alarm(alarm_obj)
    \* the loader and the renderers (Spec)
    pc,             \* position of the running entry point
    caller,         \* entry point that is running
    alarms_files,   \* the documents given to the entry point
    file_idx,       \* number of documents opened so far
    alarms,         \* alarms_data['alarms'] of the open document
    alarm_list,     \* parse_alarms_file's local list
    returned,       \* value parse_alarms_file last returned
    exc,            \* exception that left the entry point
    output,         \* rows written by alarms_to_csv's csv.writer
    constants_file  \* lines written by write_constants_file

vars == <<parent_alarm, level, level_obj, values, alarm, alarm_obj, rendered,
          pc, caller, alarms_files, file_idx, alarms, alarm_list, returned,
          exc, output, constants_file>>

levelVars == <<parent_alarm, level, level_obj, values>>
alarmVars == <<alarm, alarm_obj, rendered>>
loadVars == <<pc, caller, alarms_files, file_idx, alarms, alarm_list,
              returned, exc, output, constants_file>>

----------------------------------------------------------------------------
(* Python string and integer primitives *)

UpperChars == <<"A","B","C","D","E","F","G","H","I","J","K","L","M",
                "N","O","P","Q","R","S","T","U","V","W","X","Y","Z">>

LowerChars == <<"a","b","c","d","e","f","g","h","i","j","k","l","m",
                "n","o","p","q","r","s","t","u","v","w","x","y","z">>

Digits == <<"0","1","2","3","4","5","6","7","8","9">>

IndexIn(c, chars) == CHOOSE i \in 1..Len(chars) : chars[i] = c

IsIn(c, chars) == \E i \in 1..Len(chars) : chars[i] = c

\* str.lower()
lower(s) ==
    [i \in 1..Len(s) |->
        IF IsIn(s[i], UpperChars) THEN LowerChars[IndexIn(s[i], UpperChars)]
        ELSE s[i]]

\* str.upper()
upper(s) ==
    [i \in 1..Len(s) |->
        IF IsIn(s[i], LowerChars) THEN UpperChars[IndexIn(s[i], LowerChars)]
        ELSE s[i]]

RECURSIVE strNat(_)
strNat(n) ==
    IF n < 10 THEN <<Digits[n + 1]>>
    ELSE strNat(n \div 10) \o <<Digits[(n % 10) + 1]>>

\* str() of an int
str(n) == IF n < 0 THEN <<"-">> \o strNat(-n) ELSE strNat(n)

\* len() of a free-text value
len(text) == text.n

\* key in dict
Has(d, key) == key \in DOMAIN d

----------------------------------------------------------------------------
(* Exceptions *)

NoExc == [type |-> "none", what |-> ""]

KeyError(key) == [type |-> "KeyError", what |-> key]

AssertionError(what) == [type |-> "AssertionError", what |-> what]

----------------------------------------------------------------------------
(* Severity and cause vocabularies *)

s_cleared == <<"c","l","e","a","r","e","d">>
s_indeterminate == <<"i","n","d","e","t","e","r","m","i","n","a","t","e">>
s_critical == <<"c","r","i","t","i","c","a","l">>
s_major == <<"m","a","j","o","r">>
s_minor == <<"m","i","n","o","r">>
s_warning == <<"w","a","r","n","i","n","g">>

\* alarm_severities.py
CLEARED == 1
INDETERMINATE == 2
CRITICAL == 3
MAJOR == 4
MINOR == 5
WARNING == 6

itu_severities ==
    (s_cleared :> CLEARED) @@ (s_indeterminate :> INDETERMINATE) @@
    (s_critical :> CRITICAL) @@ (s_major :> MAJOR) @@
    (s_minor :> MINOR) @@ (s_warning :> WARNING)

alarm_model_state ==
    (s_cleared :> 1) @@ (s_indeterminate :> 2) @@ (s_critical :> 6) @@
    (s_major :> 5) @@ (s_minor :> 4) @@ (s_warning :> 3)

c_software_error ==
    <<"s","o","f","t","w","a","r","e","_","e","r","r","o","r">>
c_database_inconsistency ==
    <<"d","a","t","a","b","a","s","e","_",
      "i","n","c","o","n","s","i","s","t","e","n","c","y">>
c_underlying_resource_unavailable ==
    <<"u","n","d","e","r","l","y","i","n","g","_",
      "r","e","s","o","u","r","c","e","_",
      "u","n","a","v","a","i","l","a","b","l","e">>

valid_causes ==
    <<c_software_error, c_database_inconsistency,
      c_underlying_resource_unavailable>>

----------------------------------------------------------------------------
(* AlarmLevel.__init__ *)

\* what a constructor that raised leaves behind
NoObj == [none |-> TRUE]

Raise(e) == [exc |-> e, obj |-> NoObj]

Built(o) == [exc |-> NoExc, obj |-> o]

\* Faulty variant of AlarmLevelFields: the OID ordinal is looked up in
\* itu_severities instead of alarm_model_state
AlarmLevelFieldsItuOid(parent_alarm_, level_) ==
    LET severity == lower(level_.severity)
    IN  [_details |-> IF Has(level_, "extended_details")
                      THEN level_.extended_details ELSE level_.details,
         _description |-> IF Has(level_, "extended_description")
                          THEN level_.extended_description
                          ELSE level_.description,
         _cause |-> level_.cause,
         _effect |-> level_.effect,
         _action |-> level_.action,
         _itu_severity |-> itu_severities[severity],
         _oid |-> str(parent_alarm_._index) \o <<".">>
                  \o str(itu_severities[severity]),
         _severity_string |-> level_.severity]

\* Faulty variant of AlarmLevelFields: extended_details does not replace details
AlarmLevelFieldsNoOverride(parent_alarm_, level_) ==
    LET severity == lower(level_.severity)
    IN  [_details |-> level_.details,
         _description |-> IF Has(level_, "extended_description")
                          THEN level_.extended_description
                          ELSE level_.description,
         _cause |-> level_.cause,
         _effect |-> level_.effect,
         _action |-> level_.action,
         _itu_severity |-> itu_severities[severity],
         _oid |-> str(parent_alarm_._index) \o <<".">>
                  \o str(alarm_model_state[severity]),
         _severity_string |-> level_.severity]

\* The assignments of a level whose length checks all passed: the optional
\* overrides, then the severity lookup and the derived fields.
AlarmLevelFields(parent_alarm_, level_) ==
    LET severity == lower(level_.severity)
    IN  [_details |-> IF Has(level_, "extended_details")
                      THEN level_.extended_details ELSE level_.details,
         _description |-> IF Has(level_, "extended_description")
                          THEN level_.extended_description
                          ELSE level_.description,
         _cause |-> level_.cause,
         _effect |-> level_.effect,
         _action |-> level_.action,
         _itu_severity |-> itu_severities[severity],
         _oid |-> str(parent_alarm_._index) \o <<".">>
                  \o str(alarm_model_state[severity]),
         _severity_string |-> level_.severity]

\* Faulty variant of TooLong: the ceiling is off by one
TooLongOffByOne(text, limit) == ~(len(text) <= limit)

\* `assert len(text) < limit` fails
TooLong(text, limit) == ~(len(text) < limit)

AlarmLevel(parent_alarm_, level_) ==
    IF ~Has(level_, "details") THEN Raise(KeyError("details"))
    ELSE IF TooLong(level_.details, 256)
    THEN Raise(AssertionError("Details length"))
    ELSE IF ~Has(level_, "description") THEN Raise(KeyError("description"))
    ELSE IF TooLong(level_.description, 256)
    THEN Raise(AssertionError("Description length"))
    ELSE IF ~Has(level_, "cause") THEN Raise(KeyError("cause"))
    ELSE IF TooLong(level_.cause, 4096)
    THEN Raise(AssertionError("Cause length"))
    ELSE IF ~Has(level_, "effect") THEN Raise(KeyError("effect"))
    ELSE IF TooLong(level_.effect, 4096)
    THEN Raise(AssertionError("Effect length"))
    ELSE IF ~Has(level_, "action") THEN Raise(KeyError("action"))
    ELSE IF TooLong(level_.action, 4096)
    THEN Raise(AssertionError("Action length"))
    ELSE IF Has(level_, "extended_details")
            /\ TooLong(level_.extended_details, 4096)
    THEN Raise(AssertionError("Extended details length"))
    ELSE IF Has(level_, "extended_description")
            /\ TooLong(level_.extended_description, 4096)
    THEN Raise(AssertionError("Extended description length"))
    ELSE IF ~Has(level_, "severity") THEN Raise(KeyError("severity"))
    ELSE IF lower(level_.severity) \notin DOMAIN itu_severities
    THEN Raise(AssertionError("Severity level"))
    ELSE Built(AlarmLevelFields(parent_alarm_, level_))

----------------------------------------------------------------------------
(* Alarm.__init__ *)

\* Faulty variant of StoreLevel: a severity already stored keeps its first Level
StoreLevelKeepFirst(_levels, level_obj_) ==
    _levels @@ (level_obj_._itu_severity :> level_obj_)

\* self._levels[level_obj._itu_severity] = level_obj
StoreLevel(_levels, level_obj_) ==
    (level_obj_._itu_severity :> level_obj_) @@ _levels

\* One pass of `for level in alarm['levels']` per element; an exception
\* raised by AlarmLevel leaves the loop and the constructor.
RECURSIVE LevelsLoop(_, _, _)
LevelsLoop(self, levels, found) ==
    IF levels = <<>> THEN [exc |-> NoExc, self |-> self, found |-> found]
    ELSE LET r == AlarmLevel(self, Head(levels))
         IN  IF r.exc # NoExc
             THEN [exc |-> r.exc, self |-> self, found |-> found]
             ELSE LevelsLoop(
                    [self EXCEPT !._levels = StoreLevel(@, r.obj)],
                    Tail(levels),
                    IF r.obj._itu_severity = CLEARED
                    THEN [found EXCEPT !.cleared = TRUE]
                    ELSE [found EXCEPT !.non_cleared = TRUE])

\* Faulty variant of CauseValid: the cause is compared without case-folding
CauseValidCaseSensitive(cause) == IsIn(cause, valid_causes)

\* alarm['cause'].lower() in valid_causes
CauseValid(cause) == IsIn(lower(cause), valid_causes)

\* Faulty variant of FoundChecks: the second assertion is left out
FoundChecksClearedOnly(found) ==
    IF ~found.cleared THEN AssertionError("missing a cleared severity")
    ELSE NoExc

\* Faulty variant of FoundChecks: the two assertions in the other order
FoundChecksSwapped(found) ==
    IF ~found.non_cleared
    THEN AssertionError("missing any non-cleared severities")
    ELSE IF ~found.cleared THEN AssertionError("missing a cleared severity")
    ELSE NoExc

\* The two assertions after the loop
FoundChecks(found) ==
    IF ~found.cleared THEN AssertionError("missing a cleared severity")
    ELSE IF ~found.non_cleared
    THEN AssertionError("missing any non-cleared severities")
    ELSE NoExc

Alarm(alarm_) ==
    IF ~Has(alarm_, "name") THEN Raise(KeyError("name"))
    ELSE IF ~Has(alarm_, "index") THEN Raise(KeyError("index"))
    ELSE IF ~Has(alarm_, "cause") THEN Raise(KeyError("cause"))
    ELSE IF ~CauseValid(alarm_.cause) THEN Raise(AssertionError("Cause"))
    ELSE IF ~Has(alarm_, "levels") THEN Raise(KeyError("levels"))
    ELSE LET self0 == [_name |-> alarm_.name, _index |-> alarm_.index,
                       _levels |-> <<>>, _cause |-> alarm_.cause]
             loop == LevelsLoop(self0, alarm_.levels,
                                [cleared |-> FALSE, non_cleared |-> FALSE])
         IN  IF loop.exc # NoExc THEN Raise(loop.exc)
             ELSE IF FoundChecks(loop.found) # NoExc
             THEN Raise(FoundChecks(loop.found))
             ELSE Built(loop.self)

----------------------------------------------------------------------------
(* Renderers *)

\* The orders in which a dict can hand out its keys: the code relies on
\* the mapping's iteration order, which it does not choose.
KeyOrders(d) ==
    {o \in [1..Cardinality(DOMAIN d) -> DOMAIN d] :
        \A i, j \in DOMAIN o : o[i] = o[j] => i = j}

RECURSIVE Join(_, _)
Join(strs, sep) ==
    IF strs = <<>> THEN <<>>
    ELSE IF Len(strs) = 1 THEN strs[1]
    ELSE strs[1] \o sep \o Join(Tail(strs), sep)

\* str() of a tuple of ints
strTuple(t) ==
    <<"(">> \o Join([i \in 1..Len(t) |-> str(t[i])], <<",", " ">>)
    \o (IF Len(t) = 1 THEN <<",">> ELSE <<>>) \o <<")">>

\* Faulty variant of RenderLine: the name is not upper-cased
RenderLineVerbatimName(alarm_, keys) ==
    LET handle_data == <<alarm_._index>> \o keys
    IN  alarm_._name \o <<" ", "=", " ">> \o strTuple(handle_data)
        \o <<"\n">>

\* render_alarm for one order of alarm._levels.keys()
RenderLine(alarm_, keys) ==
    LET handle_data == <<alarm_._index>> \o keys
    IN  upper(alarm_._name) \o <<" ", "=", " ">> \o strTuple(handle_data)
        \o <<"\n">>

\* The lines render_alarm can return
render_alarm(alarm_) ==
    {RenderLine(alarm_, keys) : keys \in KeyOrders(alarm_._levels)}

RECURSIVE RenderAll(_)
\* The line lists write_constants_file can write for a list of alarms
RenderAll(alarm_details) ==
    IF alarm_details = <<>> THEN {<<>>}
    ELSE {<<l>> \o rest : l \in render_alarm(Head(alarm_details)),
                          rest \in RenderAll(Tail(alarm_details))}

\* The header row of alarms_to_csv (plain strings: never inspected)
columns ==
    <<"OID", "ITU_severity", "name", "cause", "severity", "description",
      "details", "cause", "effect", "action">>

\* Faulty variant of RowValues: details before description
RowValuesDetailsFirst(alarm_, alarm_level) ==
    <<alarm_level._oid, alarm_level._itu_severity, alarm_._name,
      alarm_._cause, alarm_level._severity_string,
      alarm_level._details, alarm_level._description, alarm_level._cause,
      alarm_level._effect, alarm_level._action>>

\* The list alarms_to_csv builds for one level of one alarm
RowValues(alarm_, alarm_level) ==
    <<alarm_level._oid, alarm_level._itu_severity, alarm_._name,
      alarm_._cause, alarm_level._severity_string,
      alarm_level._description, alarm_level._details, alarm_level._cause,
      alarm_level._effect, alarm_level._action>>

\* writer.writerow on a data row: a value that is no string (the ITU
\* severity, an int) is written as its str()
writerow(values_) == [values_ EXCEPT ![2] = str(@)]

\* The rows written for one alarm, for every order of _levels.itervalues()
AlarmRows(alarm_) ==
    {[i \in 1..Len(keys) |->
        writerow(RowValues(alarm_, alarm_._levels[keys[i]]))] :
     keys \in KeyOrders(alarm_._levels)}

RECURSIVE ListRows(_)
\* The rows written for one loaded document (`for alarm in alarm_list`)
ListRows(alarm_list_) ==
    IF alarm_list_ = <<>> THEN {<<>>}
    ELSE {rows \o rest : rows \in AlarmRows(Head(alarm_list_)),
                         rest \in ListRows(Tail(alarm_list_))}

----------------------------------------------------------------------------
(* Inputs *)

\* Alarm records in all the documents of one run
MaxAlarms == 3
\* Documents given to alarms_to_csv in one run
MaxFiles == 2
\* Level records in one alarm record (SpecAlarm)
MaxLevels == 3

Text(c, k) == [ch |-> c, n |-> k]

Lvl(sev, c) ==
    [details |-> Text(c, 3), description |-> Text(c, 5),
     cause |-> Text("c", 4), effect |-> Text("e", 4),
     action |-> Text("a", 4), severity |-> sev]

Without(r, key) == [k \in DOMAIN r \ {key} |-> r[k]]

s_Cleared == <<"C","l","e","a","r","e","d">>
s_CRITICAL == <<"C","R","I","T","I","C","A","L">>
s_Major == <<"M","a","j","o","r">>
s_bogus == <<"b","o","g","u","s">>

c_Software_Error ==
    <<"S","o","f","t","w","a","r","e","_","E","r","r","o","r">>
c_DATABASE_INCONSISTENCY == upper(c_database_inconsistency)
c_hardware_error ==
    <<"h","a","r","d","w","a","r","e","_","e","r","r","o","r">>

n_proc_Fail == <<"p","r","o","c","_","F","a","i","l">>
n_Db2 == <<"D","b","2">>

(* SpecLevel: one level record, one parent *)

LevelSeverities ==
    {s_cleared, s_indeterminate, s_critical, s_major, s_minor, s_warning,
     s_Cleared, s_CRITICAL, s_bogus}

BaseLevels ==
    [details : {Text("d", 1), Text("d", 255), Text("d", 256)},
     description : {Text("D", 1), Text("D", 255), Text("D", 256)},
     cause : {Text("c", 1), Text("c", 4095), Text("c", 4096)},
     effect : {Text("e", 1), Text("e", 4096)},
     action : {Text("a", 1), Text("a", 4096)},
     severity : LevelSeverities]

ExtendedTexts == {Text("x", 2), Text("x", 300), Text("x", 4095),
                  Text("x", 4096)}

OptionalDetails ==
    {<<>>} \cup {[extended_details |-> t] : t \in ExtendedTexts}

OptionalDescription ==
    {<<>>} \cup {[extended_description |-> t] : t \in ExtendedTexts}

MandatoryLevelKeys ==
    {"details", "description", "cause", "effect", "action", "severity"}

LevelRecords ==
    {b @@ od @@ ods : b \in BaseLevels, od \in OptionalDetails,
                      ods \in OptionalDescription}
    \cup {Without(Lvl(s_major, "m"), k) : k \in MandatoryLevelKeys}

ParentAlarms ==
    {[_name |-> n_proc_Fail, _index |-> i, _levels |-> <<>>,
      _cause |-> c_software_error] : i \in {-5, 7, 1000}}

(* SpecAlarm: one alarm record *)

AlarmLevels ==
    {Lvl(s_cleared, "p"), Lvl(s_Cleared, "q"), Lvl(s_critical, "r"),
     Lvl(s_CRITICAL, "s"), Lvl(s_major, "t"), Lvl(s_warning, "u"),
     Lvl(s_bogus, "v"),
     [Lvl(s_minor, "w") EXCEPT !.details = Text("w", 256)],
     Lvl(s_cleared, "y") @@ [extended_details |-> Text("x", 300)],
     Without(Lvl(s_indeterminate, "z"), "effect")}

LevelSeqs(n) == UNION {[1..k -> AlarmLevels] : k \in 0..n}

AlarmCauses ==
    {c_software_error, c_Software_Error, c_DATABASE_INCONSISTENCY,
     c_underlying_resource_unavailable, c_hardware_error}

MandatoryAlarmKeys == {"name", "index", "cause", "levels"}

ValidLevels == <<Lvl(s_cleared, "p"), Lvl(s_critical, "r")>>

RichAlarmRecords ==
    [name : {n_proc_Fail}, index : {1000}, cause : AlarmCauses,
     levels : LevelSeqs(MaxLevels)]
    \cup {Without([name |-> n_Db2, index |-> 7, cause |-> c,
                   levels |-> ValidLevels], k) :
          k \in MandatoryAlarmKeys, c \in {c_software_error, c_hardware_error}}

(* Spec: documents *)

AlarmRecords ==
    {[name |-> n_proc_Fail, index |-> 1000, cause |-> c_software_error,
      levels |-> ValidLevels],
     [name |-> n_Db2, index |-> 7, cause |-> c_Software_Error,
      levels |-> <<Lvl(s_Cleared, "q")
                     @@ [extended_details |-> Text("x", 300)],
                   Lvl(s_major, "t"),
                   Lvl(s_Major, "T")
                     @@ [extended_description |-> Text("X", 4095)]>>],
     [name |-> n_Db2, index |-> 8, cause |-> c_hardware_error,
      levels |-> <<Lvl(s_bogus, "v")>>],
     [name |-> n_proc_Fail, index |-> 9, cause |-> c_software_error,
      levels |-> <<Lvl(s_cleared, "p"), Lvl(s_Cleared, "q")>>]}

AlarmSeqs(n) == UNION {[1..k -> AlarmRecords] : k \in 0..n}

\* A document without the top-level `alarms` key
BadDoc == [alarm |-> <<>>]

\* The documents obtained by cutting one sequence of alarm records at the
\* positions cuts, the document at position bad (if any) malformed
FilesOf(records, cuts, bad) ==
    [j \in 1..(Len(cuts) + 1) |->
        IF j = bad THEN BadDoc
        ELSE [alarms |->
                SubSeq(records,
                       (IF j = 1 THEN 0 ELSE cuts[j - 1]) + 1,
                       IF j = Len(cuts) + 1 THEN Len(records) ELSE cuts[j])]]

Docs == {[alarms |-> records] : records \in AlarmSeqs(MaxAlarms)}
        \cup {BadDoc}

Cuts(n, k) ==
    {c \in [1..k -> 0..n] : \A i, j \in 1..k : i <= j => c[i] <= c[j]}

FileLists ==
    {<<>>} \cup
    UNION {{FilesOf(records, cuts, bad) :
                cuts \in UNION {Cuts(Len(records), k) :
                                    k \in 0..(MaxFiles - 1)},
                bad \in 0..MaxFiles} :
           records \in AlarmSeqs(MaxAlarms)}

----------------------------------------------------------------------------
(* State machine *)

Unbuilt == [exc |-> NoExc, obj |-> NoObj]

Init ==
    /\ parent_alarm = NoObj
    /\ level = NoObj
    /\ level_obj = Unbuilt
    /\ values = <<>>
    /\ alarm = NoObj
    /\ alarm_obj = Unbuilt
    /\ rendered = <<>>
    /\ pc = "idle"
    /\ caller = "none"
    /\ alarms_files = <<>>
    /\ file_idx = 0
    /\ alarms = <<>>
    /\ alarm_list = <<>>
    /\ returned = <<>>
    /\ exc = NoExc
    /\ output = <<>>
    /\ constants_file = <<>>

(* AlarmLevel on its own *)

\* AlarmLevel(parent_alarm, level)
LevelInit ==
    /\ pc = "idle"
    /\ \E parent_alarm_ \in ParentAlarms, level_ \in LevelRecords :
          /\ parent_alarm' = parent_alarm_
          /\ level' = level_
          /\ level_obj' = AlarmLevel(parent_alarm_, level_)
    /\ pc' = "level"
    /\ UNCHANGED <<values, alarmVars, caller, alarms_files, file_idx, alarms,
                   alarm_list, returned, exc, output, constants_file>>

\* The `values` list alarms_to_csv builds for the level
LevelValues ==
    /\ pc = "level"
    /\ level_obj.exc = NoExc
    /\ values' = RowValues(parent_alarm, level_obj.obj)
    /\ pc' = "values"
    /\ UNCHANGED <<parent_alarm, level, level_obj, alarmVars, caller,
                   alarms_files, file_idx, alarms, alarm_list, returned, exc,
                   output, constants_file>>

NextLevel ==
    \/ LevelInit
    \/ LevelValues

SpecLevel == Init /\ [][NextLevel]_vars

(* Alarm and render_alarm on their own *)

\* Alarm(alarm)
AlarmInit ==
    /\ pc = "idle"
    /\ \E alarm_ \in RichAlarmRecords :
          /\ alarm' = alarm_
          /\ alarm_obj' = Alarm(alarm_)
    /\ pc' = "alarm"
    /\ UNCHANGED <<rendered, levelVars, caller, alarms_files, file_idx,
                   alarms, alarm_list, returned, exc, output, constants_file>>

\* render_alarm(alarm_obj)
RenderAlarm ==
    /\ pc = "alarm"
    /\ alarm_obj.exc = NoExc
    /\ rendered' \in render_alarm(alarm_obj.obj)
    /\ pc' = "rendered"
    /\ UNCHANGED <<alarm, alarm_obj, levelVars, caller, alarms_files,
                   file_idx, alarms, alarm_list, returned, exc, output,
                   constants_file>>

NextAlarm ==
    \/ AlarmInit
    \/ RenderAlarm

SpecAlarm == Init /\ [][NextAlarm]_vars

(* The loader and the renderers *)

\* parse_alarms_file up to its loop: json.load and alarms_data['alarms']
OpenFile(doc) ==
    IF Has(doc, "alarms")
    THEN /\ alarms' = doc.alarms
         /\ alarm_list' = <<>>
         /\ pc' = "parse"
         /\ exc' = exc
    ELSE /\ exc' = KeyError("alarms")
         /\ pc' = "raised"
         /\ UNCHANGED <<alarms, alarm_list>>

\* validate_alarms_and_write_constants called: it calls parse_alarms_file
ValidateAlarmsAndWriteConstants ==
    /\ pc = "idle"
    /\ \E json_file \in Docs :
          /\ alarms_files' = <<json_file>>
          /\ OpenFile(json_file)
    /\ caller' = "constants"
    /\ file_idx' = 1
    /\ UNCHANGED <<returned, output, constants_file, levelVars, alarmVars>>

\* alarms_to_csv called: the writer is created and the header written
AlarmsToCsv ==
    /\ pc = "idle"
    /\ caller' = "csv"
    /\ alarms_files' \in FileLists
    /\ output' = <<columns>>
    /\ file_idx' = 0
    /\ pc' = "files"
    /\ UNCHANGED <<alarms, alarm_list, returned, exc, constants_file,
                   levelVars, alarmVars>>

\* `for alarm_file in alarms_files`: parse_alarms_file(alarm_file) called
CsvNextFile ==
    /\ pc = "files"
    /\ file_idx < Len(alarms_files)
    /\ file_idx' = file_idx + 1
    /\ OpenFile(alarms_files[file_idx + 1])
    /\ UNCHANGED <<caller, alarms_files, returned, output, constants_file,
                   levelVars, alarmVars>>

\* Faulty variant of ParseStep: an invalid record ends the loop and the list built
\* so far is returned
ParseStepPartial ==
    /\ pc = "parse"
    /\ Len(alarm_list) < Len(alarms)
    /\ LET r == Alarm(alarms[Len(alarm_list) + 1])
       IN  IF r.exc # NoExc
           THEN /\ returned' = alarm_list
                /\ pc' = IF caller = "csv" THEN "rows" ELSE "write"
                /\ UNCHANGED alarm_list
           ELSE /\ alarm_list' = Append(alarm_list, r.obj)
                /\ UNCHANGED <<returned, pc>>
    /\ UNCHANGED <<caller, alarms_files, file_idx, alarms, exc, output,
                   constants_file, levelVars, alarmVars>>

\* `for alarm in alarms: alarm_list.append(Alarm(alarm))`, one iteration
ParseStep ==
    /\ pc = "parse"
    /\ Len(alarm_list) < Len(alarms)
    /\ LET r == Alarm(alarms[Len(alarm_list) + 1])
       IN  IF r.exc # NoExc
           THEN /\ exc' = r.exc
                /\ pc' = "raised"
                /\ UNCHANGED alarm_list
           ELSE /\ alarm_list' = Append(alarm_list, r.obj)
                /\ UNCHANGED <<exc, pc>>
    /\ UNCHANGED <<caller, alarms_files, file_idx, alarms, returned, output,
                   constants_file, levelVars, alarmVars>>

\* `return alarm_list`
ParseReturn ==
    /\ pc = "parse"
    /\ Len(alarm_list) = Len(alarms)
    /\ returned' = alarm_list
    /\ pc' = IF caller = "csv" THEN "rows" ELSE "write"
    /\ UNCHANGED <<caller, alarms_files, file_idx, alarms, alarm_list, exc,
                   output, constants_file, levelVars, alarmVars>>

\* The two inner loops of alarms_to_csv over the list just returned
CsvWriteRows ==
    /\ pc = "rows"
    /\ \E rows \in ListRows(returned) : output' = output \o rows
    /\ pc' = "files"
    /\ UNCHANGED <<caller, alarms_files, file_idx, alarms, alarm_list,
                   returned, exc, constants_file, levelVars, alarmVars>>

\* `return output.getvalue()`
CsvReturn ==
    /\ pc = "files"
    /\ file_idx = Len(alarms_files)
    /\ pc' = "done"
    /\ UNCHANGED <<caller, alarms_files, file_idx, alarms, alarm_list,
                   returned, exc, output, constants_file, levelVars,
                   alarmVars>>

\* write_constants_file(alarm_list, constants_file)
WriteConstantsFile ==
    /\ pc = "write"
    /\ constants_file' \in RenderAll(returned)
    /\ pc' = "done"
    /\ UNCHANGED <<caller, alarms_files, file_idx, alarms, alarm_list,
                   returned, exc, output, levelVars, alarmVars>>

Next ==
    \/ ValidateAlarmsAndWriteConstants
    \/ AlarmsToCsv
    \/ CsvNextFile
    \/ ParseStep
    \/ ParseReturn
    \/ CsvWriteRows
    \/ CsvReturn
    \/ WriteConstantsFile

Spec == Init /\ [][Next]_vars

----------------------------------------------------------------------------
(* What the specification says of records, stated on the records *)

SeverityNames ==
    {s_cleared, s_indeterminate, s_critical, s_major, s_minor, s_warning}

CauseNames ==
    {c_software_error, c_database_inconsistency,
     c_underlying_resource_unavailable}

\* A level record that is valid on its own
WellFormedLevel(l) ==
    /\ MandatoryLevelKeys \subseteq DOMAIN l
    /\ l.details.n <= 255
    /\ l.description.n <= 255
    /\ l.cause.n <= 4095
    /\ l.effect.n <= 4095
    /\ l.action.n <= 4095
    /\ Has(l, "extended_details") => l.extended_details.n <= 4095
    /\ Has(l, "extended_description") => l.extended_description.n <= 4095
    /\ lower(l.severity) \in SeverityNames

\* The level record's severity is cleared
IsClearedRecord(l) == Has(l, "severity") /\ lower(l.severity) = s_cleared

\* The positions of the cleared level records of an alarm record
ClearedAt(a) == {i \in 1..Len(a.levels) : IsClearedRecord(a.levels[i])}

\* name, index, a valid cause and levels that are all valid on their own
WellFormedParts(a) ==
    /\ MandatoryAlarmKeys \subseteq DOMAIN a
    /\ lower(a.cause) \in CauseNames
    /\ \A i \in 1..Len(a.levels) : WellFormedLevel(a.levels[i])

MissingCleared == AssertionError("missing a cleared severity")
MissingNonCleared == AssertionError("missing any non-cleared severities")
InvalidCause == AssertionError("Cause")

AlarmBuilt == pc \in {"alarm", "rendered"} /\ alarm_obj.exc = NoExc

\* The Levels of the built alarm whose severity is cleared
ClearedLevels ==
    {k \in DOMAIN alarm_obj.obj._levels :
        lower(alarm_obj.obj._levels[k]._severity_string) = s_cleared}

----------------------------------------------------------------------------
(* Claims on Alarm.__init__, under SpecAlarm *)

\* C1: whenever Alarm construction succeeds, the level mapping holds exactly
\* one Level whose severity is cleared and at least one Level whose severity
\* is not cleared.
C1_OneClearedSomeNonCleared ==
    AlarmBuilt =>
        /\ Cardinality(ClearedLevels) = 1
        /\ DOMAIN alarm_obj.obj._levels \ ClearedLevels # {}

\* C1 witness: an alarm was built from a record with two cleared level
\* records and a non-cleared one.
C1_Witness ==
    /\ AlarmBuilt
    /\ Cardinality(ClearedAt(alarm)) = 2
    /\ Len(alarm.levels) = 3

\* C2 as stated: construction fails for every record whose levels hold two
\* or more cleared level records.  The code does not behave so.
C2_TwoClearedFails ==
    (pc = "alarm" /\ Has(alarm, "levels") /\ Cardinality(ClearedAt(alarm)) >= 2)
        => alarm_obj.exc # NoExc

\* C2 amended: a record whose levels hold two or more cleared level records
\* fails exactly when a key is missing, the cause is invalid, a level is
\* invalid on its own or no level is non-cleared; otherwise it is built, and
\* the last cleared record is the mapping's one cleared Level.
C2_TwoClearedFailsOnlyForAnotherReason ==
    (pc = "alarm" /\ Has(alarm, "levels") /\ Cardinality(ClearedAt(alarm)) >= 2)
        => /\ alarm_obj.exc # NoExc <=>
                \/ ~WellFormedParts(alarm)
                \/ ClearedAt(alarm) = 1..Len(alarm.levels)
           /\ alarm_obj.exc = NoExc =>
                LET last == CHOOSE i \in ClearedAt(alarm) :
                                \A j \in ClearedAt(alarm) : j <= i
                    kept == alarm_obj.obj._levels[CLEARED]
                IN  /\ ClearedLevels = {CLEARED}
                    /\ kept._severity_string = alarm.levels[last].severity
                    /\ kept._description = alarm.levels[last].description

\* C2 witness: a record with a valid cause, two cleared level records that
\* differ and a non-cleared one was built.
C2_Witness ==
    /\ pc = "alarm"
    /\ alarm_obj.exc = NoExc
    /\ Cardinality(ClearedAt(alarm)) = 2
    /\ \E i, j \in ClearedAt(alarm) :
          alarm.levels[i].description # alarm.levels[j].description

\* C3: for a record with name, index, a valid cause and levels all valid on
\* their own: levels non-empty and all cleared fails with the missing
\* non-cleared error; no cleared level (also no level at all) fails with the
\* missing cleared error.
C3_MissingSeverityErrors ==
    (pc = "alarm" /\ WellFormedParts(alarm)) =>
        /\ (alarm.levels # <<>> /\ ClearedAt(alarm) = 1..Len(alarm.levels))
              => alarm_obj.exc = MissingNonCleared
        /\ ClearedAt(alarm) = {} => alarm_obj.exc = MissingCleared

\* C3 witness: a record with no level at all failed with the missing
\* cleared error.
C3_Witness ==
    /\ pc = "alarm"
    /\ WellFormedParts(alarm)
    /\ alarm.levels = <<>>
    /\ alarm_obj.exc = MissingCleared

\* C7: a record with name, index and cause fails with the invalid cause
\* error exactly when its cause, lower-cased, is none of the three causes,
\* whatever its levels are; Software_Error and software_error pass the
\* check and hardware_error fails it.
C7_CauseCaseInsensitive ==
    (pc = "alarm" /\ {"name", "index", "cause"} \subseteq DOMAIN alarm) =>
        /\ alarm_obj.exc = InvalidCause <=> lower(alarm.cause) \notin CauseNames
        /\ alarm.cause \in {c_Software_Error, c_software_error}
              => alarm_obj.exc # InvalidCause
        /\ alarm.cause = c_hardware_error => alarm_obj.exc = InvalidCause

\* C7 witness: hardware_error was rejected for a record whose first level
\* is itself invalid.
C7_Witness ==
    /\ pc = "alarm"
    /\ Has(alarm, "levels") /\ Has(alarm, "cause")
    /\ alarm.cause = c_hardware_error
    /\ alarm.levels # <<>>
    /\ ~WellFormedLevel(alarm.levels[1])
    /\ alarm_obj.exc = InvalidCause

----------------------------------------------------------------------------
(* Reading numbers back from text *)

IsNumeral(ds) == ds # <<>> /\ \A i \in 1..Len(ds) : IsIn(ds[i], Digits)

RECURSIVE ParseNat(_)
ParseNat(ds) ==
    IF ds = <<>> THEN 0
    ELSE 10 * ParseNat(SubSeq(ds, 1, Len(ds) - 1))
         + (IndexIn(ds[Len(ds)], Digits) - 1)

IsIntText(t) ==
    t # <<>> /\ IF t[1] = "-" THEN IsNumeral(Tail(t)) ELSE IsNumeral(t)

ParseInt(t) == IF t[1] = "-" THEN 0 - ParseNat(Tail(t)) ELSE ParseNat(t)

\* Every comma is followed by a space
WellSeparated(t) ==
    \A p \in 1..Len(t) : t[p] = "," => (p < Len(t) /\ t[p + 1] = " ")

RECURSIVE SplitList(_)
\* The items of a text whose items are separated by a comma and a space
SplitList(t) ==
    IF ~IsIn(",", t) THEN <<t>>
    ELSE LET p == CHOOSE q \in 1..Len(t) :
                     t[q] = "," /\ \A r \in 1..(q - 1) : t[r] # ","
         IN  <<SubSeq(t, 1, p - 1)>> \o SplitList(SubSeq(t, p + 2, Len(t)))

----------------------------------------------------------------------------
(* Claims on AlarmLevel.__init__, under SpecLevel *)

LevelBuilt == pc \in {"level", "values"} /\ level_obj.exc = NoExc

\* The model-state ordinals as the specification lists them
ModelStateOrdinal(severity) ==
    CASE severity = s_cleared -> 1
      [] severity = s_indeterminate -> 2
      [] severity = s_warning -> 3
      [] severity = s_minor -> 4
      [] severity = s_major -> 5
      [] severity = s_critical -> 6

\* C4: the OID suffix of a built Level reads as the parent alarm's index, a
\* period and the model-state ordinal of the case-folded severity; index 1000
\* gives 1000.5 for major, 1000.1 for cleared and 1000.6 for critical.
C4_OidSuffix ==
    LevelBuilt =>
        LET oid == level_obj.obj._oid
            severity == lower(level.severity)
        IN  /\ \E p \in 1..Len(oid) :
                  /\ oid[p] = "."
                  /\ IsIntText(SubSeq(oid, 1, p - 1))
                  /\ ParseInt(SubSeq(oid, 1, p - 1)) = parent_alarm._index
                  /\ IsNumeral(SubSeq(oid, p + 1, Len(oid)))
                  /\ ParseNat(SubSeq(oid, p + 1, Len(oid)))
                        = ModelStateOrdinal(severity)
            /\ (parent_alarm._index = 1000 /\ severity = s_major)
                  => oid = <<"1", "0", "0", "0", ".", "5">>
            /\ (parent_alarm._index = 1000 /\ severity = s_cleared)
                  => oid = <<"1", "0", "0", "0", ".", "1">>
            /\ (parent_alarm._index = 1000 /\ severity = s_critical)
                  => oid = <<"1", "0", "0", "0", ".", "6">>

\* C4 witness: a Level of severity CRITICAL under index 1000 has the OID
\* suffix 1000.6.
C4_Witness ==
    /\ LevelBuilt
    /\ parent_alarm._index = 1000
    /\ level.severity = s_CRITICAL
    /\ level_obj.obj._oid = <<"1", "0", "0", "0", ".", "6">>

\* C5: a built Level's details are extended_details when the record has
\* one and details otherwise, and likewise its description; the row written
\* for the Level has ten values, the description sixth and the details
\* seventh, and these are the effective ones.
C5_OverrideReplaces ==
    /\ LevelBuilt =>
        /\ level_obj.obj._details =
              IF "extended_details" \in DOMAIN level
              THEN level.extended_details ELSE level.details
        /\ level_obj.obj._description =
              IF "extended_description" \in DOMAIN level
              THEN level.extended_description ELSE level.description
    /\ pc = "values" =>
        /\ Len(values) = 10
        /\ values[6] = IF "extended_description" \in DOMAIN level
                       THEN level.extended_description ELSE level.description
        /\ values[7] = IF "extended_details" \in DOMAIN level
                       THEN level.extended_details ELSE level.details
        /\ "extended_details" \in DOMAIN level =>
              \A i \in 6..10 : values[i] # level.details
        /\ "extended_description" \in DOMAIN level =>
              \A i \in 6..10 : values[i] # level.description

\* C5 witness: the row of a Level whose record has a 255-character details
\* and a 4095-character extended_details carries the extended one.
C5_Witness ==
    /\ pc = "values"
    /\ "extended_details" \in DOMAIN level
    /\ level.details.n = 255
    /\ level.extended_details.n = 4095
    /\ "extended_description" \notin DOMAIN level
    /\ values[7] = level.extended_details

\* Some field of the record is at or over its ceiling
OverCeiling(l) ==
    \/ Has(l, "details") /\ l.details.n >= 256
    \/ Has(l, "description") /\ l.description.n >= 256
    \/ Has(l, "cause") /\ l.cause.n >= 4096
    \/ Has(l, "effect") /\ l.effect.n >= 4096
    \/ Has(l, "action") /\ l.action.n >= 4096
    \/ Has(l, "extended_details") /\ l.extended_details.n >= 4096
    \/ Has(l, "extended_description") /\ l.extended_description.n >= 4096

\* C6: AlarmLevel fails whenever details or description has 256 or more
\* characters, with or without an extended override, or cause, effect,
\* action, extended_details or extended_description has 4096 or more; a
\* record valid but for its details passes with 255 characters of details and
\* fails on the details length with 256.
C6_LengthCeilings ==
    pc = "level" =>
        /\ OverCeiling(level) => level_obj.exc # NoExc
        /\ WellFormedLevel(level) => level_obj.exc = NoExc
        /\ (/\ MandatoryLevelKeys \subseteq DOMAIN level
            /\ WellFormedLevel([level EXCEPT !.details = Text("d", 255)]))
              => /\ level.details.n = 255 => level_obj.exc = NoExc
                 /\ level.details.n = 256 =>
                       level_obj.exc = AssertionError("Details length")

\* C6 witness: a record with 256 characters of details and a valid
\* extended_details, valid otherwise, failed on the details length.
C6_Witness ==
    /\ pc = "level"
    /\ MandatoryLevelKeys \subseteq DOMAIN level
    /\ level.details.n = 256
    /\ "extended_details" \in DOMAIN level
    /\ WellFormedLevel([level EXCEPT !.details = Text("d", 255)])
    /\ level_obj.exc = AssertionError("Details length")

----------------------------------------------------------------------------
(* Claim on render_alarm, under SpecAlarm *)

\* The ITU severity codes of the severities the alarm record has
RecordCodes(a) ==
    {itu_severities[lower(a.levels[i].severity)] : i \in 1..Len(a.levels)}

\* C10: the line rendered for a built alarm ends with its only newline; it
\* reads NAME = (items), NAME being the alarm's name upper-cased and the
\* items integers separated by a comma and a space, the first the alarm's
\* index and the others the ITU codes of the severities of the alarm's
\* levels, each code once and no other code.
C10_ConstantLine ==
    pc = "rendered" =>
        LET n == Len(alarm.name)
            last == Len(rendered)
            inner == SubSeq(rendered, n + 5, last - 2)
            items == SplitList(inner)
            codes == [i \in 1..(Len(items) - 1) |-> ParseInt(items[i + 1])]
        IN  /\ last >= n + 7
            /\ \A i \in 1..last : rendered[i] = "\n" <=> i = last
            /\ \A i \in 1..n : ~IsIn(rendered[i], LowerChars)
            /\ lower(SubSeq(rendered, 1, n)) = lower(alarm.name)
            /\ SubSeq(rendered, n + 1, n + 4) = <<" ", "=", " ", "(">>
            /\ rendered[last - 1] = ")"
            /\ WellSeparated(inner)
            /\ \A i \in 1..Len(items) : IsIntText(items[i])
            /\ ParseInt(items[1]) = alarm.index
            /\ {codes[i] : i \in 1..Len(codes)} = RecordCodes(alarm)
            /\ Len(codes) = Cardinality(RecordCodes(alarm))

\* C10 witness: a line was rendered for an alarm built from three level
\* records of two severities.
C10_Witness ==
    /\ pc = "rendered"
    /\ Len(alarm.levels) = 3
    /\ Cardinality(RecordCodes(alarm)) = 2
    /\ alarm.name # upper(alarm.name)

----------------------------------------------------------------------------
(* Claims on parse_alarms_file and alarms_to_csv, under Spec *)

\* The open document has an `alarms` key: the loop over its records began
InLoop == file_idx > 0 /\ Has(alarms_files[file_idx], "alarms")

C8_State ==
    /\ (pc \in {"parse", "rows", "write", "raised"} /\ InLoop) =>
          /\ Len(alarm_list) <= Len(alarms)
          /\ \A i \in 1..Len(alarm_list) :
                /\ Alarm(alarms[i]).exc = NoExc
                /\ alarm_list[i] = Alarm(alarms[i]).obj
                /\ alarm_list[i]._name = alarms[i].name
                /\ alarm_list[i]._index = alarms[i].index
    /\ pc \in {"rows", "write"} =>
          /\ returned = alarm_list
          /\ Len(returned) = Len(alarms)
    /\ (pc = "raised" /\ InLoop) =>
          /\ Len(alarm_list) < Len(alarms)
          /\ exc # NoExc
          /\ exc = Alarm(alarms[Len(alarm_list) + 1]).exc

C8_Step ==
    /\ pc = "raised" => UNCHANGED vars
    /\ pc' = "raised" =>
          UNCHANGED <<returned, output, constants_file, alarm_list>>
    /\ returned' # returned =>
          (pc = "parse" /\ Len(alarm_list) = Len(alarms))

\* C8: the records of a document are validated in source order; when all
\* are valid the list returned holds one Alarm per record in that order;
\* when one is invalid the failure that leaves the loader is that of the
\* first invalid record, no later record is validated and no list is
\* returned.
C8_LoaderInOrderFailFast == [](C8_State) /\ [][C8_Step]_vars

\* C8 witness: the second record of a document was invalid and a third
\* record was never validated.
C8_Witness ==
    /\ pc = "raised"
    /\ InLoop
    /\ Len(alarms) = 3
    /\ Len(alarm_list) = 1
    /\ Alarm(alarms[3]).exc = NoExc

RECURSIVE Entities(_)
\* The Alarms of the given documents, in document order then record order
Entities(files) ==
    IF files = <<>> THEN <<>>
    ELSE [i \in 1..Len(files[1].alarms) |-> Alarm(files[1].alarms[i]).obj]
         \o Entities(Tail(files))

\* The row the specification describes for one Level of one Alarm
DescribedRow(a, lv) ==
    <<lv._oid, str(lv._itu_severity), a._name, a._cause, lv._severity_string,
      lv._description, lv._details, lv._cause, lv._effect, lv._action>>

RECURSIVE RowsMatch(_, _)
\* rows is, alarm after alarm, the described rows of each alarm's Levels,
\* each once
RowsMatch(ents, rows) ==
    IF ents = <<>> THEN rows = <<>>
    ELSE LET a == ents[1]
             n == Cardinality(DOMAIN a._levels)
         IN  /\ Len(rows) >= n
             /\ {rows[i] : i \in 1..n} =
                   {DescribedRow(a, a._levels[k]) : k \in DOMAIN a._levels}
             /\ RowsMatch(Tail(ents), SubSeq(rows, n + 1, Len(rows)))

ExampleDocument == [alarms |-> <<[name |-> n_proc_Fail, index |-> 1000,
                                  cause |-> c_software_error,
                                  levels |-> ValidLevels]>>]

\* C9: when alarms_to_csv returns, its output is the header row followed,
\* document after document and alarm after alarm, by one row per Level of
\* the alarm, each row as the specification describes it; the example
\* document gives two data rows, of OIDs 1000.1 and 1000.6.
C9_CsvRows ==
    (pc = "done" /\ caller = "csv") =>
        /\ output[1] = <<"OID", "ITU_severity", "name", "cause", "severity",
                         "description", "details", "cause", "effect",
                         "action">>
        /\ RowsMatch(Entities(alarms_files), Tail(output))
        /\ alarms_files = <<ExampleDocument>> =>
              /\ Len(output) = 3
              /\ {output[2][1], output[3][1]} =
                    {<<"1", "0", "0", "0", ".", "1">>,
                     <<"1", "0", "0", "0", ".", "6">>}

\* C9 witness: alarms_to_csv returned after two documents with alarms of
\* different names.
C9_Witness ==
    /\ pc = "done"
    /\ caller = "csv"
    /\ Len(alarms_files) = 2
    /\ Len(output) >= 5
    /\ alarms_files[1].alarms # <<>>
    /\ alarms_files[2].alarms # <<>>
    /\ alarms_files[1].alarms[1].name # alarms_files[2].alarms[1].name

----------------------------------------------------------------------------
(* Claim on duplicate severities in Alarm.__init__, under SpecAlarm *)

\* The positions of the level records of a whose case-folded severity has
\* the ITU code k
RecordsOfCode(a, k) ==
    {i \in 1..Len(a.levels) :
        itu_severities[lower(a.levels[i].severity)] = k}

\* The last position of a non-empty set of positions
LastOf(positions) == CHOOSE i \in positions : \A j \in positions : j <= i

\* C11: the level mapping of a built alarm has one entry per distinct
\* case-folded severity of the record's levels and no entry for a severity
\* the record does not have; the entry of a severity is the Level built from
\* the last level record of that severity in source order.
C11_LastDuplicateWins ==
    AlarmBuilt =>
        /\ DOMAIN alarm_obj.obj._levels = RecordCodes(alarm)
        /\ \A k \in DOMAIN alarm_obj.obj._levels :
              LET src == alarm.levels[LastOf(RecordsOfCode(alarm, k))]
                  kept == alarm_obj.obj._levels[k]
              IN  /\ kept = AlarmLevel(alarm_obj.obj, src).obj
                  /\ kept._severity_string = src.severity
                  /\ kept._cause = src.cause
                  /\ kept._description =
                        IF "extended_description" \in DOMAIN src
                        THEN src.extended_description ELSE src.description
                  /\ kept._details =
                        IF "extended_details" \in DOMAIN src
                        THEN src.extended_details ELSE src.details

\* C11 witness: an alarm was built from a record with two critical level
\* records of different spelling and text, and its critical Level carries
\* the later record's spelling.
C11_Witness ==
    /\ AlarmBuilt
    /\ Cardinality(RecordsOfCode(alarm, CRITICAL)) = 2
    /\ \E i, j \in RecordsOfCode(alarm, CRITICAL) :
          /\ i < j
          /\ alarm.levels[i].severity # alarm.levels[j].severity
          /\ alarm.levels[i].details # alarm.levels[j].details
          /\ alarm_obj.obj._levels[CRITICAL]._severity_string
                = alarm.levels[j].severity

====
